---- MODULE Spec2Model ----
(***************************************************************************)
(* HLS relay (app.py): channel registry and token store (sqlite tables),   *)
(* the playlist cache (latest_playlists / latest_segments), the updater    *)
(* threads (update_worker) with their supervisor (start_updater /          *)
(* stop_updater) and the Flask request handlers.                           *)
(*                                                                         *)
(* A Python str is a sequence of one-character strings, so that strip,     *)
(* endswith, "in", splitlines, join and urljoin are computed rather than   *)
(* assumed.                                                                *)
(***************************************************************************)
EXTENDS Integers, Sequences, FiniteSets, TLC

VARIABLES
    channels,          \* table channels: (name, version) -> source_url
    tokens,            \* table tokens: token -> [expires, name, version]
    issued,            \* number of tokens secrets.token_urlsafe has produced
    now,               \* time.time()
    ticks,             \* number of clock advances so far
    latest_playlists,  \* dict (name, version) -> playlist text
    latest_segments,   \* dict (name, version) -> list of segment URLs
    updater_threads,   \* dict (name, version) -> thread/stop_event handle
    threads,           \* every Thread object created: its arguments and position
    stop_events,       \* the handles whose threading.Event is set
    handlers,          \* the request handlers in flight
    last,              \* the request answered last, with its response
    boot,              \* channels the module start-up loop has still to visit
    rw                 \* the rewrite of one fetched body, taken on its own

vars == <<channels, tokens, issued, now, ticks, latest_playlists, latest_segments,
          updater_threads, threads, stop_events, handlers, last, boot, rw>>

-----------------------------------------------------------------------------
(* Bounds of the model *)

MaxThreads == 2
NumHandlers == 2
MaxTokens == 2
MaxTicks == 2
MaxSegId == 2
MaxLines == 3

(* Program constants *)

TOKEN_EXPIRY_DEFAULT == 86400

-----------------------------------------------------------------------------
(* str *)

CharWS == {" ", "\t"}

RECURSIVE LStrip(_)
LStrip(s) == IF s # <<>> /\ Head(s) \in CharWS THEN LStrip(Tail(s)) ELSE s

RECURSIVE RStrip(_)
RStrip(s) ==
    IF s # <<>> /\ s[Len(s)] \in CharWS THEN RStrip(SubSeq(s, 1, Len(s) - 1)) ELSE s

Strip(s) == RStrip(LStrip(s))

EndsWith(s, suf) ==
    /\ Len(s) >= Len(suf)
    /\ SubSeq(s, Len(s) - Len(suf) + 1, Len(s)) = suf

StartsWith(s, pre) ==
    /\ Len(s) >= Len(pre)
    /\ SubSeq(s, 1, Len(pre)) = pre

Contains(s, sub) ==
    \E i \in 1..(Len(s) - Len(sub) + 1) : SubSeq(s, i, i + Len(sub) - 1) = sub

\* "\n".join(lines)
RECURSIVE Join(_)
Join(ls) ==
    IF ls = <<>> THEN <<>>
    ELSE IF Len(ls) = 1 THEN ls[1]
    ELSE ls[1] \o <<"\n">> \o Join(Tail(ls))

\* text.splitlines(): a line ends at \n, \r or \r\n; no empty line after a
\* final line break.
RECURSIVE SplitFrom(_, _, _, _)
SplitFrom(s, i, cur, acc) ==
    IF i > Len(s) THEN (IF cur = <<>> THEN acc ELSE Append(acc, cur))
    ELSE IF s[i] = "\r" /\ i < Len(s) /\ s[i + 1] = "\n"
         THEN SplitFrom(s, i + 2, <<>>, Append(acc, cur))
    ELSE IF s[i] \in {"\n", "\r"}
         THEN SplitFrom(s, i + 1, <<>>, Append(acc, cur))
    ELSE SplitFrom(s, i + 1, Append(cur, s[i]), acc)

SplitLines(s) == SplitFrom(s, 1, <<>>, <<>>)

\* str(idx)
DigitChars == <<"0", "1", "2", "3", "4", "5", "6", "7", "8", "9">>

RECURSIVE IntToStr(_)
IntToStr(n) ==
    IF n < 10 THEN <<DigitChars[n + 1]>>
    ELSE IntToStr(n \div 10) \o <<DigitChars[(n % 10) + 1]>>

\* source_url.rsplit("/", 1)[0] + "/"
LastSlash(s) ==
    IF \E i \in 1..Len(s) : s[i] = "/"
    THEN CHOOSE i \in 1..Len(s) : s[i] = "/" /\ \A j \in (i + 1)..Len(s) : s[j] # "/"
    ELSE 0

BaseUrl(source_url) ==
    IF LastSlash(source_url) = 0 THEN source_url \o <<"/">>
    ELSE SubSeq(source_url, 1, LastSlash(source_url) - 1) \o <<"/">>

\* urljoin(base_url, line) for an http base that ends with "/": a line that
\* carries its own scheme and host stays as it is, a line that starts with
\* "/" replaces the path of the base, any other line is appended to the
\* directory of the base.
HttpPrefix == <<"h", "t", "t", "p", ":", "/", "/">>

SchemeHost(base_url) ==
    LET rest == SubSeq(base_url, Len(HttpPrefix) + 1, Len(base_url))
        cut  == CHOOSE i \in 1..Len(rest) :
                    rest[i] = "/" /\ \A j \in 1..(i - 1) : rest[j] # "/"
    IN  HttpPrefix \o SubSeq(rest, 1, cut - 1)

Urljoin(base_url, line) ==
    IF StartsWith(line, HttpPrefix) THEN line
    ELSE IF StartsWith(line, <<"/">>) THEN SchemeHost(base_url) \o line
    ELSE base_url \o line

-----------------------------------------------------------------------------
(* update_worker, lines 129-146: the rewrite of one fetched body *)

IsSegmentLine(line) ==
    \/ EndsWith(line, <<".", "t", "s">>)
    \/ EndsWith(line, <<".", "a", "a", "c">>)
    \/ Contains(line, <<".", "t", "s", "?">>)

SegRef(name, version, idx) ==
    <<"/", "s", "e", "g", "/">> \o name \o <<"/">> \o version \o <<"/">> \o IntToStr(idx)

\* idx = len(new_segs)
NextSegIndexByLines(new_segs, new_playlist_lines) == Len(new_playlist_lines)

NextSegIndex(new_segs, new_playlist_lines) == Len(new_segs)

\* line = line.strip()
CleanLine(line) == Strip(line)

RECURSIVE RewriteLoop(_, _, _, _, _, _, _)
RewriteLoop(name, version, base_url, lines, i, new_segs, new_playlist_lines) ==
    IF i > Len(lines)
    THEN [segs |-> new_segs, text |-> Join(new_playlist_lines)]
    ELSE LET line == CleanLine(lines[i]) IN
         IF line = <<>>
         THEN RewriteLoop(name, version, base_url, lines, i + 1,
                          new_segs, new_playlist_lines)
         ELSE IF IsSegmentLine(line)
         THEN RewriteLoop(name, version, base_url, lines, i + 1,
                          Append(new_segs, Urljoin(base_url, line)),
                          Append(new_playlist_lines,
                                 SegRef(name, version,
                                        NextSegIndex(new_segs, new_playlist_lines))))
         ELSE RewriteLoop(name, version, base_url, lines, i + 1,
                          new_segs, Append(new_playlist_lines, line))

Rewrite(name, version, source_url, text) ==
    RewriteLoop(name, version, BaseUrl(source_url), SplitLines(text), 1, <<>>, <<>>)

-----------------------------------------------------------------------------
(* Inputs *)

NameA == <<"A">>
NameB == <<"B">>
V1 == <<"v", "1">>
V2 == <<"v", "2">>

\* the (name, version) pairs a request path can carry
PathKeys == {<<NameA, V1>>, <<NameA, V2>>, <<NameB, V1>>}

\* the (name, version) pairs the admin forms submit
AdminKeys == {<<NameA, V1>>}

\* ORDER BY name, version
KeyOrder == <<<<NameA, V1>>, <<NameA, V2>>, <<NameB, V1>>>>

SourceUrl == <<"h", "t", "t", "p", ":", "/", "/", "o", "/", "l", "/", "s">>

\* what the origin answers to a playlist fetch
Body1 == <<"#", "E", "\n", "a", ".", "t", "s", "\n">>
Body2 == <<"b", ".", "t", "s", "\n", "\n", " ", "c", ".", "a", "a", "c">>
Bodies == {Body1, Body2}

TokenOf(i) == <<i>>
TokenInputs == {<<>>} \cup {TokenOf(i) : i \in 1..MaxTokens}

TickSteps == {1, TOKEN_EXPIRY_DEFAULT}

-----------------------------------------------------------------------------
(* dict *)

Put(d, k, v) == [x \in (DOMAIN d) \cup {k} |-> IF x = k THEN v ELSE d[x]]

Pop(d, k) == [x \in (DOMAIN d) \ {k} |-> d[x]]

EmptyDict == [x \in {} |-> 0]

-----------------------------------------------------------------------------
(* Token store *)

\* validate_token, line 106: time.time() > expires
TokenExpiredAtExpiry(expires, t) == t >= expires

TokenExpired(expires, t) == t > expires

\* cleanup_expired_tokens, line 117: WHERE expires < ?
SweepDeletesAtExpiry(expires, t) == expires <= t

SweepDeletes(expires, t) == expires < t

\* validate_token: the answer (<<>> is None) and the table it leaves.  A
\* token's row is never updated and token strings are never reused, so the
\* SELECT, the comparison and the DELETE act as one step.
ValidateTokenOneTime(store, token, t) ==
    IF token \notin DOMAIN store
    THEN [valid |-> <<>>, store |-> store]
    ELSE IF TokenExpired(store[token].expires, t)
    THEN [valid |-> <<>>, store |-> Pop(store, token)]
    ELSE [valid |-> <<store[token].name, store[token].version>>,
          store |-> Pop(store, token)]

ValidateToken(store, token, t) ==
    IF token \notin DOMAIN store
    THEN [valid |-> <<>>, store |-> store]
    ELSE IF TokenExpired(store[token].expires, t)
    THEN [valid |-> <<>>, store |-> Pop(store, token)]
    ELSE [valid |-> <<store[token].name, store[token].version>>, store |-> store]

CleanupExpiredTokens(store, t) ==
    [x \in {y \in DOMAIN store : ~SweepDeletes(store[y].expires, t)} |-> store[x]]

\* generate_token
NewTokenRecord(name, version, t) ==
    [expires |-> t + TOKEN_EXPIRY_DEFAULT, name |-> name, version |-> version]

-----------------------------------------------------------------------------
(* Threads and handlers *)

NewThread(k, src) == [key |-> k, src |-> src, pc |-> "new", segs |-> <<>>, text |-> <<>>]

Live(t) == threads[t].pc \notin {"new", "exited"}

IdleHandler ==
    [op |-> "none", pc |-> "idle", key |-> <<>>, tok |-> <<>>, tup |-> 0,
     seg |-> 0, url |-> <<>>, resp |-> "none", body |-> <<>>]

\* no request answered yet; n tells one answer from the next
NoResponse == [req |-> IdleHandler, n |-> 0]

Free(h) == handlers[h].pc = "idle"

Serving == boot = <<>>

Request(op, k) == [IdleHandler EXCEPT !.op = op, !.key = k]

Done(r, resp) == [r EXCEPT !.pc = "done", !.resp = resp, !.tup = 0]

\* the handler goes on to its next statement
Continue(h, r) ==
    /\ handlers' = [handlers EXCEPT ![h] = r]
    /\ UNCHANGED last

\* the handler returns its response
Return(h, r, resp) ==
    /\ handlers' = [handlers EXCEPT ![h] = IdleHandler]
    /\ last' = [req |-> Done(r, resp), n |-> 1 - last.n]

PendingTokens == Cardinality({h \in 1..NumHandlers : handlers[h].pc = "generate"})

-----------------------------------------------------------------------------
(* Initial state: the tables as a previous run left them, nothing started *)

RECURSIVE ListFrom(_, _)
ListFrom(d, i) ==
    IF i > Len(KeyOrder) THEN <<>>
    ELSE IF KeyOrder[i] \in DOMAIN d THEN <<KeyOrder[i]>> \o ListFrom(d, i + 1)
    ELSE ListFrom(d, i + 1)

\* list_channels()
ListChannels(d) == ListFrom(d, 1)

RwIdle == [state |-> "idle", name |-> <<>>, version |-> <<>>, src |-> <<>>,
           lines |-> <<>>, segs |-> <<>>, text |-> <<>>]

Init ==
    /\ \E S \in SUBSET AdminKeys :
          /\ Cardinality(S) <= MaxThreads
          /\ channels = [k \in S |-> SourceUrl]
    /\ boot = ListChannels(channels)
    /\ tokens = EmptyDict
    /\ issued = 0
    /\ now = 0
    /\ ticks = 0
    /\ latest_playlists = EmptyDict
    /\ latest_segments = EmptyDict
    /\ updater_threads = EmptyDict
    /\ threads = <<>>
    /\ stop_events = {}
    /\ handlers = [h \in 1..NumHandlers |-> IdleHandler]
    /\ last = NoResponse
    /\ rw = RwIdle

\* the registry holds up to two channels when the module is loaded
PairKeys == {<<NameA, V1>>, <<NameB, V1>>}

InitPair ==
    /\ \E S \in SUBSET PairKeys :
          /\ Cardinality(S) <= MaxThreads
          /\ channels = [k \in S |-> SourceUrl]
    /\ boot = ListChannels(channels)
    /\ tokens = EmptyDict
    /\ issued = 0
    /\ now = 0
    /\ ticks = 0
    /\ latest_playlists = EmptyDict
    /\ latest_segments = EmptyDict
    /\ updater_threads = EmptyDict
    /\ threads = <<>>
    /\ stop_events = {}
    /\ handlers = [h \in 1..NumHandlers |-> IdleHandler]
    /\ last = NoResponse
    /\ rw = RwIdle

-----------------------------------------------------------------------------
(* Module start-up, lines 291-294.  The loop runs before any request is     *)
(* served and the rows of the table have distinct keys, so no other thread  *)
(* reads or writes what one pass of the loop touches: a pass is one step.   *)

\* line 155: if key in updater_threads: return
StartFindsHandleNever(d, k) == FALSE

StartFindsHandle(d, k) == k \in DOMAIN d

\* lines 291-294 without the assignments of 292 and 293
BootChannelNoPlaceholder ==
    /\ boot # <<>>
    /\ LET k == Head(boot) IN
       IF StartFindsHandle(updater_threads, k)
       THEN UNCHANGED <<updater_threads, threads>>
       ELSE /\ threads' = Append(threads, [NewThread(k, channels[k]) EXCEPT !.pc = "loop"])
            /\ updater_threads' = Put(updater_threads, k, Len(threads) + 1)
    /\ boot' = Tail(boot)
    /\ UNCHANGED <<channels, tokens, issued, now, ticks, latest_playlists,
                   latest_segments, stop_events, handlers, last, rw>>

BootChannel ==
    /\ boot # <<>>
    /\ LET k == Head(boot) IN
       /\ latest_playlists' = Put(latest_playlists, k, <<>>)
       /\ latest_segments' = Put(latest_segments, k, <<>>)
       /\ IF StartFindsHandle(updater_threads, k)
          THEN UNCHANGED <<updater_threads, threads>>
          ELSE /\ threads' = Append(threads, [NewThread(k, channels[k]) EXCEPT !.pc = "loop"])
               /\ updater_threads' = Put(updater_threads, k, Len(threads) + 1)
    /\ boot' = Tail(boot)
    /\ UNCHANGED <<channels, tokens, issued, now, ticks, stop_events, handlers, last, rw>>

-----------------------------------------------------------------------------
(* The clock: time passes by a second or by a token lifetime *)

Tick ==
    /\ ticks < MaxTicks
    /\ \E d \in TickSteps : now' = now + d
    /\ ticks' = ticks + 1
    /\ UNCHANGED <<channels, tokens, issued, latest_playlists, latest_segments,
                   updater_threads, threads, stop_events, handlers, last, boot, rw>>

-----------------------------------------------------------------------------
(* update_worker *)

WorkerVarsOnly ==
    UNCHANGED <<channels, tokens, issued, now, ticks, latest_playlists,
                latest_segments, updater_threads, stop_events, handlers, last, boot, rw>>

\* line 125: while not stop_event.is_set()
WorkerLoopIgnoresStop(t) ==
    /\ threads[t].pc = "loop"
    /\ threads' = [threads EXCEPT ![t].pc = "fetch"]
    /\ WorkerVarsOnly

WorkerLoop(t) ==
    /\ threads[t].pc = "loop"
    /\ threads' = [threads EXCEPT ![t].pc =
                      IF t \in stop_events THEN "exited" ELSE "fetch"]
    /\ WorkerVarsOnly

\* lines 127-143: the fetch succeeds and the body is rewritten
WorkerFetchOk(t) ==
    /\ threads[t].pc = "fetch"
    /\ \E body \in Bodies :
          LET out == Rewrite(threads[t].key[1], threads[t].key[2], threads[t].src, body)
          IN  threads' = [threads EXCEPT ![t].pc = "write_segments",
                                         ![t].segs = out.segs,
                                         ![t].text = out.text]
    /\ WorkerVarsOnly

\* lines 127-128, 148-149: the fetch raises
WorkerFetchFailClears(t) ==
    /\ threads[t].pc = "fetch"
    /\ threads' = [threads EXCEPT ![t].pc = "log_error"]
    /\ latest_playlists' = Pop(latest_playlists, threads[t].key)
    /\ latest_segments' = Pop(latest_segments, threads[t].key)
    /\ UNCHANGED <<channels, tokens, issued, now, ticks,
                   updater_threads, stop_events, handlers, last, boot, rw>>

WorkerFetchFail(t) ==
    /\ threads[t].pc = "fetch"
    /\ threads' = [threads EXCEPT ![t].pc = "log_error"]
    /\ WorkerVarsOnly

\* lines 148-149: except Exception: print(...)
WorkerLogErrorExits(t) ==
    /\ threads[t].pc = "log_error"
    /\ threads' = [threads EXCEPT ![t].pc = "exited"]
    /\ WorkerVarsOnly

\* lines 148-151 with the sweep inside the try block
WorkerLogErrorSkipsSweep(t) ==
    /\ threads[t].pc = "log_error"
    /\ threads' = [threads EXCEPT ![t].pc = "wait"]
    /\ WorkerVarsOnly

WorkerLogError(t) ==
    /\ threads[t].pc = "log_error"
    /\ threads' = [threads EXCEPT ![t].pc = "sweep"]
    /\ WorkerVarsOnly

\* line 145
WorkerWriteSegmentsExtends(t) ==
    /\ threads[t].pc = "write_segments"
    /\ latest_segments' = Put(latest_segments, threads[t].key,
                              (IF threads[t].key \in DOMAIN latest_segments
                               THEN latest_segments[threads[t].key] ELSE <<>>)
                              \o threads[t].segs)
    /\ threads' = [threads EXCEPT ![t].pc = "write_playlist", ![t].segs = <<>>]
    /\ UNCHANGED <<channels, tokens, issued, now, ticks, latest_playlists,
                   updater_threads, stop_events, handlers, last, boot, rw>>

WorkerWriteSegments(t) ==
    /\ threads[t].pc = "write_segments"
    /\ latest_segments' = Put(latest_segments, threads[t].key, threads[t].segs)
    /\ threads' = [threads EXCEPT ![t].pc = "write_playlist", ![t].segs = <<>>]
    /\ UNCHANGED <<channels, tokens, issued, now, ticks, latest_playlists,
                   updater_threads, stop_events, handlers, last, boot, rw>>

\* line 146
WorkerWritePlaylist(t) ==
    /\ threads[t].pc = "write_playlist"
    /\ latest_playlists' = Put(latest_playlists, threads[t].key, threads[t].text)
    /\ threads' = [threads EXCEPT ![t].pc = "sweep", ![t].text = <<>>]
    /\ UNCHANGED <<channels, tokens, issued, now, ticks, latest_segments,
                   updater_threads, stop_events, handlers, last, boot, rw>>

\* line 150
WorkerSweep(t) ==
    /\ threads[t].pc = "sweep"
    /\ tokens' = CleanupExpiredTokens(tokens, now)
    /\ threads' = [threads EXCEPT ![t].pc = "wait"]
    /\ UNCHANGED <<channels, issued, now, ticks, latest_playlists, latest_segments,
                   updater_threads, stop_events, handlers, last, boot, rw>>

\* line 151: stop_event.wait(UPDATE_INTERVAL) returns, on the timeout or on set()
WorkerWait(t) ==
    /\ threads[t].pc = "wait"
    /\ threads' = [threads EXCEPT ![t].pc = "loop"]
    /\ WorkerVarsOnly

-----------------------------------------------------------------------------
(* start_updater / stop_updater, as the handlers run them *)

SharedUnchanged ==
    UNCHANGED <<channels, tokens, issued, now, ticks, latest_playlists,
                latest_segments, updater_threads, threads, stop_events, boot, rw>>

StartCheck(h) ==
    /\ handlers[h].pc = "start_check"
    /\ IF StartFindsHandle(updater_threads, handlers[h].key)
       THEN Return(h, handlers[h], "Redirect")
       ELSE Continue(h, [handlers[h] EXCEPT !.pc = "start_create"])
    /\ SharedUnchanged

\* lines 157-159: a new Event, a new Thread, the handle recorded
StartCreate(h) ==
    /\ handlers[h].pc = "start_create"
    /\ Len(threads) < MaxThreads
    /\ threads' = Append(threads, NewThread(handlers[h].key, handlers[h].url))
    /\ updater_threads' = Put(updater_threads, handlers[h].key, Len(threads) + 1)
    /\ Continue(h, [handlers[h] EXCEPT !.pc = "start_launch", !.tup = Len(threads) + 1])
    /\ UNCHANGED <<channels, tokens, issued, now, ticks, latest_playlists,
                   latest_segments, stop_events, boot, rw>>

\* line 160: t.start()
StartLaunch(h) ==
    /\ handlers[h].pc = "start_launch"
    /\ threads' = [threads EXCEPT ![handlers[h].tup].pc = "loop"]
    /\ Return(h, handlers[h], "Redirect")
    /\ UNCHANGED <<channels, tokens, issued, now, ticks, latest_playlists,
                   latest_segments, updater_threads, stop_events, boot, rw>>

\* line 167: stop_event.set()
StopSet(h) ==
    /\ handlers[h].pc = "stop_set"
    /\ stop_events' = stop_events \cup {handlers[h].tup}
    /\ Continue(h, [handlers[h] EXCEPT !.pc = "pop_playlist"])
    /\ UNCHANGED <<channels, tokens, issued, now, ticks, latest_playlists,
                   latest_segments, updater_threads, threads, boot, rw>>

-----------------------------------------------------------------------------
(* /admin/add *)

\* lines 214-221: add_channel
AdminAdd(h, k, src) ==
    /\ Serving /\ Free(h)
    /\ IF k \in DOMAIN channels
       THEN /\ Return(h, Request("admin_add", k), "ChannelExists")
            /\ UNCHANGED channels
       ELSE /\ channels' = Put(channels, k, src)
            /\ Continue(h, [Request("admin_add", k) EXCEPT !.pc = "start_check",
                                                           !.url = src])
    /\ UNCHANGED <<tokens, issued, now, ticks, latest_playlists, latest_segments,
                   updater_threads, threads, stop_events, boot, rw>>

-----------------------------------------------------------------------------
(* /admin/delete *)

\* lines 227-231, 164 with updater_threads.get(key) for the pop
AdminDeleteKeepsHandle(h, k) ==
    /\ Serving /\ Free(h)
    /\ LET tup == IF k \in DOMAIN updater_threads THEN updater_threads[k] ELSE 0 IN
       Continue(h, [Request("admin_delete", k) EXCEPT
                       !.pc = IF tup # 0 THEN "stop_set" ELSE "pop_playlist",
                       !.tup = tup])
    /\ UNCHANGED <<channels, tokens, issued, now, ticks, latest_playlists,
                   latest_segments, updater_threads, threads, stop_events, boot, rw>>

\* lines 227-231, 164: tup = updater_threads.pop(key, None)
AdminDelete(h, k) ==
    /\ Serving /\ Free(h)
    /\ LET tup == IF k \in DOMAIN updater_threads THEN updater_threads[k] ELSE 0 IN
       /\ updater_threads' = Pop(updater_threads, k)
       /\ Continue(h, [Request("admin_delete", k) EXCEPT
                          !.pc = IF tup # 0 THEN "stop_set" ELSE "pop_playlist",
                          !.tup = tup])
    /\ UNCHANGED <<channels, tokens, issued, now, ticks, latest_playlists,
                   latest_segments, threads, stop_events, boot, rw>>

\* line 232
PopPlaylistClears(h) ==
    /\ handlers[h].pc = "pop_playlist"
    /\ latest_playlists' = EmptyDict
    /\ Continue(h, [handlers[h] EXCEPT !.pc = "pop_segments"])
    /\ UNCHANGED <<channels, tokens, issued, now, ticks, latest_segments,
                   updater_threads, threads, stop_events, boot, rw>>

PopPlaylist(h) ==
    /\ handlers[h].pc = "pop_playlist"
    /\ latest_playlists' = Pop(latest_playlists, handlers[h].key)
    /\ Continue(h, [handlers[h] EXCEPT !.pc = "pop_segments"])
    /\ UNCHANGED <<channels, tokens, issued, now, ticks, latest_segments,
                   updater_threads, threads, stop_events, boot, rw>>

\* line 233
PopSegments(h) ==
    /\ handlers[h].pc = "pop_segments"
    /\ latest_segments' = Pop(latest_segments, handlers[h].key)
    /\ Continue(h, [handlers[h] EXCEPT !.pc = "delete_channel"])
    /\ UNCHANGED <<channels, tokens, issued, now, ticks, latest_playlists,
                   updater_threads, threads, stop_events, boot, rw>>

\* lines 234-235
DeleteChannel(h) ==
    /\ handlers[h].pc = "delete_channel"
    /\ channels' = Pop(channels, handlers[h].key)
    /\ Return(h, handlers[h], "Redirect")
    /\ UNCHANGED <<tokens, issued, now, ticks, latest_playlists, latest_segments,
                   updater_threads, threads, stop_events, boot, rw>>

-----------------------------------------------------------------------------
(* /admin/preview *)

\* lines 239-245: get_source_url
AdminPreview(h, k) ==
    /\ Serving /\ Free(h)
    /\ issued + PendingTokens < MaxTokens
    /\ IF k \in DOMAIN channels
       THEN Continue(h, [Request("admin_preview", k) EXCEPT !.pc = "generate"])
       ELSE Return(h, Request("admin_preview", k), "ChannelNotFound")
    /\ SharedUnchanged

\* lines 246-253: generate_token
GenerateToken(h) ==
    /\ handlers[h].pc = "generate"
    /\ tokens' = Put(tokens, TokenOf(issued + 1),
                     NewTokenRecord(handlers[h].key[1], handlers[h].key[2], now))
    /\ issued' = issued + 1
    /\ Return(h, [handlers[h] EXCEPT !.tok = TokenOf(issued + 1)], "Preview")
    /\ UNCHANGED <<channels, now, ticks, latest_playlists, latest_segments,
                   updater_threads, threads, stop_events, boot, rw>>

-----------------------------------------------------------------------------
(* /<name>/<version>/index.m3u8 *)

\* line 264
TokenMismatchByName(valid, k) == valid[1] # k[1]

TokenMismatch(valid, k) == (valid[1] # k[1]) \/ (valid[2] # k[2])

\* lines 257-265
PlayIndexMismatchFirst(h, k, token) ==
    /\ Serving /\ Free(h)
    /\ LET req == [Request("play_index", k) EXCEPT !.tok = token]
           v   == ValidateToken(tokens, token, now)
       IN  IF token = <<>>
           THEN /\ Return(h, req, "MissingToken")
                /\ UNCHANGED tokens
           ELSE IF token \in DOMAIN tokens
                   /\ TokenMismatch(<<tokens[token].name, tokens[token].version>>, k)
           THEN /\ Return(h, req, "TokenMismatch")
                /\ UNCHANGED tokens
           ELSE /\ tokens' = v.store
                /\ IF v.valid = <<>> THEN Return(h, req, "InvalidOrExpiredToken")
                   ELSE Continue(h, [req EXCEPT !.pc = "lookup"])
    /\ UNCHANGED <<channels, issued, now, ticks, latest_playlists, latest_segments,
                   updater_threads, threads, stop_events, boot, rw>>

PlayIndex(h, k, token) ==
    /\ Serving /\ Free(h)
    /\ LET req == [Request("play_index", k) EXCEPT !.tok = token]
           v   == ValidateToken(tokens, token, now)
       IN  IF token = <<>>
           THEN /\ Return(h, req, "MissingToken")
                /\ UNCHANGED tokens
           ELSE /\ tokens' = v.store
                /\ IF v.valid = <<>> THEN Return(h, req, "InvalidOrExpiredToken")
                   ELSE IF TokenMismatch(v.valid, k) THEN Return(h, req, "TokenMismatch")
                   ELSE Continue(h, [req EXCEPT !.pc = "lookup"])
    /\ UNCHANGED <<channels, issued, now, ticks, latest_playlists, latest_segments,
                   updater_threads, threads, stop_events, boot, rw>>

\* line 267: if not playlist
PlaylistMissingOnly(d, k) == k \notin DOMAIN d

PlaylistMissing(d, k) == k \notin DOMAIN d \/ d[k] = <<>>

\* lines 266-269
PlayLookup(h) ==
    /\ handlers[h].pc = "lookup"
    /\ IF PlaylistMissing(latest_playlists, handlers[h].key)
       THEN Return(h, handlers[h], "PlaylistNotReady")
       ELSE Return(h, [handlers[h] EXCEPT !.body = latest_playlists[handlers[h].key]],
                   "Playlist")
    /\ SharedUnchanged

-----------------------------------------------------------------------------
(* /seg/<name>/<version>/<seg_id> *)

\* line 274
SegOutOfBoundsStrict(segs, seg_id) == seg_id < 0 \/ seg_id >= Len(segs) - 1

SegOutOfBounds(segs, seg_id) == seg_id < 0 \/ seg_id >= Len(segs)

\* lines 273-276
Segment(h, k, seg_id) ==
    /\ Serving /\ Free(h)
    /\ LET req  == [Request("segment", k) EXCEPT !.seg = seg_id]
           segs == IF k \in DOMAIN latest_segments THEN latest_segments[k] ELSE <<>>
       IN  IF SegOutOfBounds(segs, seg_id)
           THEN Return(h, req, "SegmentNotFound")
           ELSE Continue(h, [req EXCEPT !.pc = "seg_fetch", !.url = segs[seg_id + 1]])
    /\ SharedUnchanged

\* lines 278-280
SegFetchOk(h) ==
    /\ handlers[h].pc = "seg_fetch"
    /\ Return(h, handlers[h], "Segment")
    /\ SharedUnchanged

\* lines 281-283
SegFetchFail(h) ==
    /\ handlers[h].pc = "seg_fetch"
    /\ Return(h, handlers[h], "UpstreamFetchFailed")
    /\ SharedUnchanged

-----------------------------------------------------------------------------
(* A statement that touches a shared dict, a table or an Event is a step of *)
(* its own; the statements on locals before it belong to the same step.     *)
(* The routes are taken in three groups, each with start-up and the         *)
(* workers: channel add and delete, segment requests, tokens and playlist   *)
(* requests.                                                                *)

Worker(t) ==
    \/ WorkerLoop(t)
    \/ WorkerFetchOk(t)
    \/ WorkerFetchFail(t)
    \/ WorkerLogError(t)
    \/ WorkerWriteSegments(t)
    \/ WorkerWritePlaylist(t)
    \/ WorkerSweep(t)
    \/ WorkerWait(t)

AdminHandler(h) ==
    \/ \E k \in AdminKeys : AdminAdd(h, k, SourceUrl)
    \/ StartCheck(h)
    \/ StartCreate(h)
    \/ StartLaunch(h)
    \/ \E k \in AdminKeys : AdminDelete(h, k)
    \/ StopSet(h)
    \/ PopPlaylist(h)
    \/ PopSegments(h)
    \/ DeleteChannel(h)

SegmentHandler(h) ==
    \/ \E k \in PathKeys, seg_id \in 0..MaxSegId : Segment(h, k, seg_id)
    \/ SegFetchOk(h)
    \/ SegFetchFail(h)

PlayHandler(h) ==
    \/ \E k \in AdminKeys : AdminPreview(h, k)
    \/ GenerateToken(h)
    \/ \E k \in PathKeys, token \in TokenInputs : PlayIndex(h, k, token)
    \/ PlayLookup(h)

Next ==
    \/ BootChannel
    \/ \E t \in 1..Len(threads) : Worker(t)
    \/ \E h \in 1..NumHandlers : AdminHandler(h)

\* start-up, the workers, /admin/add and /admin/delete
Spec == Init /\ [][Next]_vars

(* The segment proxy: start-up, the workers and segment requests *)

NextSegment ==
    \/ BootChannel
    \/ \E t \in 1..Len(threads) : Worker(t)
    \/ \E h \in 1..NumHandlers : SegmentHandler(h)

SpecSegment == Init /\ [][NextSegment]_vars

(* Stopping: start-up, the workers and /admin/delete.  Each worker is a     *)
(* thread of the interpreter, which runs every runnable thread again and    *)
(* again, and requests.get returns or raises within its timeout (line 127), *)
(* so a worker that can take a step eventually takes one.                   *)

DeleteHandler(h) ==
    \/ \E k \in AdminKeys : AdminDelete(h, k)
    \/ StopSet(h)
    \/ PopPlaylist(h)
    \/ PopSegments(h)
    \/ DeleteChannel(h)

NextStop ==
    \/ BootChannel
    \/ \E t \in 1..Len(threads) : Worker(t)
    \/ \E h \in 1..NumHandlers : DeleteHandler(h)

SpecStop == Init /\ [][NextStop]_vars

WorkerRuns(t) == t <= Len(threads) /\ Worker(t)

FairStop == SpecStop /\ \A t \in 1..MaxThreads : WF_vars(WorkerRuns(t))

(* The gateway: start-up, the workers, the clock, tokens and playlist requests *)

NextGateway ==
    \/ BootChannel
    \/ Tick
    \/ \E t \in 1..Len(threads) : Worker(t)
    \/ \E h \in 1..NumHandlers : PlayHandler(h)

SpecGateway == Init /\ [][NextGateway]_vars

(* Start-up with two channels: the workers, tokens, and playlist and *)
(* segment requests one at a time                                    *)

NextStartup ==
    \/ BootChannel
    \/ \E t \in 1..Len(threads) : Worker(t)
    \/ PlayHandler(1)
    \/ SegmentHandler(1)

SpecStartup == InitPair /\ [][NextStartup]_vars

(* Two channels side by side: the workers, and /admin/add and *)
(* /admin/delete of either channel one at a time              *)

PairHandler(h) ==
    \/ \E k \in PairKeys : AdminAdd(h, k, SourceUrl)
    \/ StartCheck(h)
    \/ StartCreate(h)
    \/ StartLaunch(h)
    \/ \E k \in PairKeys : AdminDelete(h, k)
    \/ StopSet(h)
    \/ PopPlaylist(h)
    \/ PopSegments(h)
    \/ DeleteChannel(h)

NextPair ==
    \/ BootChannel
    \/ \E t \in 1..Len(threads) : Worker(t)
    \/ PairHandler(1)

SpecPair == InitPair /\ [][NextPair]_vars

-----------------------------------------------------------------------------
(* The rewrite on its own: one fetched body, one pass of lines 129-146 *)

LineChoices ==
    { <<"#", "E">>,
      <<"a", ".", "t", "s">>,
      <<"b", ".", "a", "a", "c">>,
      <<"c", ".", "t", "s", "?", "q">>,
      <<"d", ".", "t", "s", "x">>,
      <<" ", "e", ".", "t", "s", " ">>,
      <<"\t", "#", "F">>,
      <<"/", "r", ".", "t", "s">>,
      <<"h", "t", "t", "p", ":", "/", "/", "x", "/", "y", ".", "t", "s">>,
      <<" ">>,
      <<>> }

RECURSIVE LineSeqs(_)
LineSeqs(n) ==
    IF n = 0 THEN {<<>>}
    ELSE LineSeqs(n - 1) \cup
         {Append(ls, l) : ls \in {x \in LineSeqs(n - 1) : Len(x) = n - 1}, l \in LineChoices}

RewriteSources == {SourceUrl, <<"h", "t", "t", "p", ":", "/", "/", "o", "/", "s">>}

InitRewrite ==
    /\ channels = EmptyDict
    /\ boot = <<>>
    /\ tokens = EmptyDict
    /\ issued = 0
    /\ now = 0
    /\ ticks = 0
    /\ latest_playlists = EmptyDict
    /\ latest_segments = EmptyDict
    /\ updater_threads = EmptyDict
    /\ threads = <<>>
    /\ stop_events = {}
    /\ handlers = [h \in 1..NumHandlers |-> IdleHandler]
    /\ last = NoResponse
    /\ \E k \in PathKeys, src \in RewriteSources, ls \in LineSeqs(MaxLines) :
          rw = [RwIdle EXCEPT !.state = "fetched", !.name = k[1], !.version = k[2],
                              !.src = src, !.lines = ls]

\* r.text is the lines with a line break after each
RECURSIVE Unsplit(_)
Unsplit(ls) == IF ls = <<>> THEN <<>> ELSE ls[1] \o <<"\n">> \o Unsplit(Tail(ls))

ApplyRewrite ==
    /\ rw.state = "fetched"
    /\ LET out == Rewrite(rw.name, rw.version, rw.src, Unsplit(rw.lines))
       IN  rw' = [rw EXCEPT !.state = "rewritten", !.segs = out.segs, !.text = out.text]
    /\ UNCHANGED <<channels, tokens, issued, now, ticks, latest_playlists,
                   latest_segments, updater_threads, threads, stop_events,
                   handlers, last, boot>>

NextRewrite == ApplyRewrite

SpecRewrite == InitRewrite /\ [][NextRewrite]_vars

-----------------------------------------------------------------------------
(* Properties *)

ThreadIds == 1..Len(threads)

HandlerIds == 1..NumHandlers

\* some handler returned its response in this step
Answered == last'.n # last.n

\* a handler returned from the first statement block of its route
AnsweredAtOnce == Answered /\ handlers' = handlers

LiveWorkersOf(k) == {t \in ThreadIds : threads[t].key = k /\ Live(t)}

\* C1: for every (name, version), at most one update_worker loop is live
\* (started and not yet returned) in every reachable state.
AtMostOneLiveWorker ==
    \A k \in AdminKeys : Cardinality(LiveWorkersOf(k)) <= 1

\* C2: whenever the cache holds playlist text for a channel, that text and the
\* channel's segment table are the output of one and the same fetch cycle.
SnapshotFromOneCycle ==
    \A k \in AdminKeys :
        (k \in DOMAIN latest_playlists /\ latest_playlists[k] # <<>>)
        => /\ k \in DOMAIN latest_segments
           /\ \E body \in Bodies :
                 LET out == Rewrite(k[1], k[2], SourceUrl, body)
                 IN  /\ latest_playlists[k] = out.text
                     /\ latest_segments[k] = out.segs

\* not expired, as validate_token decides it (C4): the expiry is not in the past
Unexpired(token) == ~(now > tokens[token].expires)

BoundTo(token) == <<tokens[token].name, tokens[token].version>>

\* C3: a playlist request goes on to read the cache only with a token that is
\* stored, unexpired and bound to exactly the (name, version) of its path, and
\* a stored, unexpired token bound to another (name, version) is answered
\* TokenMismatch; playlist text is only ever returned by such a request.
TokenBindsChannel ==
    [][ /\ \A h \in HandlerIds :
              (handlers[h].pc = "idle" /\ handlers'[h].pc = "lookup")
              => /\ handlers'[h].tok \in DOMAIN tokens
                 /\ Unexpired(handlers'[h].tok)
                 /\ BoundTo(handlers'[h].tok) = handlers'[h].key
        /\ (AnsweredAtOnce /\ last'.req.op = "play_index"
              /\ last'.req.tok \in DOMAIN tokens
              /\ Unexpired(last'.req.tok)
              /\ BoundTo(last'.req.tok) # last'.req.key)
           => last'.req.resp = "TokenMismatch"
        /\ (Answered /\ last'.req.resp = "Playlist")
           => \E h \in HandlerIds : /\ handlers[h].pc = "lookup"
                                    /\ handlers'[h].pc = "idle"
                                    /\ handlers[h].key = last'.req.key
      ]_vars

\* C3 witness: a stored token of (A, v1) was presented against (A, v2) and refused
TokenMismatchSeen ==
    /\ last.req.resp = "TokenMismatch"
    /\ last.req.tok \in DOMAIN tokens
    /\ tokens[last.req.tok].name = last.req.key[1]
    /\ tokens[last.req.tok].version # last.req.key[2]

\* validate_token(token) returned the bound identity in this step
ValidateAccepted(token) ==
    \/ \E h \in HandlerIds : /\ handlers[h].pc = "idle"
                             /\ handlers'[h].pc = "lookup"
                             /\ handlers'[h].tok = token
    \/ /\ AnsweredAtOnce
       /\ last'.req.op = "play_index"
       /\ last'.req.resp = "TokenMismatch"
       /\ last'.req.tok = token

\* validate_token(token) returned None in this step
ValidateRefused(token) ==
    /\ AnsweredAtOnce
    /\ last'.req.op = "play_index"
    /\ last'.req.resp = "InvalidOrExpiredToken"
    /\ last'.req.tok = token

\* C4 as stated: a stored token is accepted if and only if now < expiry.
ValidIffBeforeExpiry ==
    [][ \A token \in DOMAIN tokens :
           /\ ValidateAccepted(token) => now < tokens[token].expires
           /\ ValidateRefused(token) => ~(now < tokens[token].expires)
      ]_vars

\* C4 amended: a stored token is accepted if and only if now <= expiry (the
\* expiry is not in the past); when it is refused, its record is gone
\* afterwards, and when it is accepted the record stays.
ValidIffNotPastExpiry ==
    [][ \A token \in DOMAIN tokens :
           /\ ValidateAccepted(token)
              => now <= tokens[token].expires /\ token \in DOMAIN tokens'
           /\ ValidateRefused(token)
              => now > tokens[token].expires /\ token \notin DOMAIN tokens'
      ]_vars

\* C4 witness: a token was accepted at the very instant of its expiry
AcceptedAtExpiry ==
    \E h \in HandlerIds :
        /\ handlers[h].pc = "lookup"
        /\ handlers[h].tok \in DOMAIN tokens
        /\ tokens[handlers[h].tok].expires = now

\* C5: the step in which a worker's fetch fails, and the rest of that failed
\* cycle, leave latest_playlists and latest_segments as they were.
FailedFetchKeepsCache ==
    [][ \A t \in ThreadIds :
           (\/ threads[t].pc = "fetch" /\ threads'[t].pc # "write_segments"
            \/ threads[t].pc = "log_error")
           /\ threads'[t] # threads[t]
           => /\ threads'[t].pc \in {"log_error", "sweep"}
              /\ UNCHANGED <<latest_playlists, latest_segments>>
      ]_vars

\* C5 witness: a fetch has just failed while the cache holds a published playlist
FetchFailedOverSnapshot ==
    \E t \in ThreadIds :
        /\ threads[t].pc = "log_error"
        /\ threads[t].key \in DOMAIN latest_playlists
        /\ latest_playlists[threads[t].key] # <<>>
        /\ latest_segments[threads[t].key] # <<>>

TableOf(k) == IF k \in DOMAIN latest_segments THEN latest_segments[k] ELSE <<>>

\* C7: a segment request is answered SegmentNotFound exactly when its index
\* lies outside the table cached at the moment of the lookup (no table
\* counting as an empty one), and otherwise goes on to fetch the URL at that
\* index of that table.
SegmentByCurrentTable ==
    [][ /\ \A h \in HandlerIds :
              (handlers[h].pc = "idle" /\ handlers'[h].pc = "seg_fetch")
              => /\ handlers'[h].seg < Len(TableOf(handlers'[h].key))
                 /\ handlers'[h].url = TableOf(handlers'[h].key)[handlers'[h].seg + 1]
        /\ (AnsweredAtOnce /\ last'.req.op = "segment")
           => /\ last'.req.resp = "SegmentNotFound"
              /\ last'.req.seg >= Len(TableOf(last'.req.key))
      ]_vars

\* C7 witness: with no token in the store, the last entry of a table of two
\* was looked up and is being fetched
LastSegmentLookedUp ==
    \E h \in HandlerIds :
        /\ DOMAIN tokens = {}
        /\ handlers[h].pc = "seg_fetch"
        /\ handlers[h].seg = 1
        /\ Len(TableOf(handlers[h].key)) = 2
        /\ handlers[h].url = TableOf(handlers[h].key)[2]

\* the lines of the fetched body that are not blank
NotBlank(line) == Strip(line) # <<>>

NonBlankLines(ls) == SelectSeq(ls, NotBlank)

StrippedLines(ls) == [j \in 1..Len(NonBlankLines(ls)) |-> Strip(NonBlankLines(ls)[j])]

SegmentsBefore(kept, j) == Cardinality({i \in 1..(j - 1) : IsSegmentLine(kept[i])})

\* the rewritten playlist keeps every pass-through line of `kept` in place and
\* puts /seg/<name>/<version>/<i> where the i-th segment line was, and entry i
\* of the table is that segment line resolved against the origin's directory
RewrittenFrom(kept) ==
    LET out == SplitLines(rw.text) IN
    /\ Len(out) = Len(kept)
    /\ Len(rw.segs) = SegmentsBefore(kept, Len(kept) + 1)
    /\ \A j \in 1..Len(kept) :
          IF IsSegmentLine(kept[j])
          THEN /\ out[j] = SegRef(rw.name, rw.version, SegmentsBefore(kept, j))
               /\ rw.segs[SegmentsBefore(kept, j) + 1] = Urljoin(BaseUrl(rw.src), kept[j])
          ELSE out[j] = kept[j]

StartStopIdempotent ==
    [][ /\ \A h \in HandlerIds :
              /\ (/\ handlers[h].pc = "start_check"
                  /\ handlers[h].key \in DOMAIN updater_threads
                  /\ handlers'[h] # handlers[h])
                 => /\ handlers'[h].pc = "idle"
                    /\ UNCHANGED <<updater_threads, threads, stop_events>>
              /\ (/\ handlers[h].pc = "idle"
                  /\ handlers'[h].op = "admin_delete"
                  /\ handlers'[h].key \notin DOMAIN updater_threads)
                 => /\ handlers'[h].pc = "pop_playlist"
                    /\ UNCHANGED <<updater_threads, threads, stop_events>>
              /\ (handlers[h].pc = "start_create" /\ handlers'[h] # handlers[h])
                 => LET k == handlers[h].key IN
                    /\ k \in DOMAIN updater_threads'
                    /\ updater_threads'[k] \notin ThreadIds
                    /\ updater_threads'[k] \notin stop_events'
                    /\ threads'[updater_threads'[k]].key = k
                    /\ threads'[updater_threads'[k]].pc = "new"
                    /\ \A t \in ThreadIds : threads'[t] = threads[t]
                    /\ UNCHANGED stop_events
        /\ \A t \in stop_events' \ stop_events :
              \E h \in HandlerIds : /\ handlers[h].pc = "stop_set"
                                    /\ handlers[h].tup = t
                                    /\ t \notin {updater_threads[k] : k \in DOMAIN updater_threads}
      ]_vars

\* C9 witness: after a stop and a start of the same channel (the stopped
\* thread's event is set, the recorded handle is another thread whose event is
\* not set) a further start_updater is at its check and finds the handle
RestartedThenStartedAgain ==
    \E h \in HandlerIds :
        /\ handlers[h].pc = "start_check"
        /\ handlers[h].key \in DOMAIN updater_threads
        /\ \E t \in ThreadIds :
              /\ threads[t].key = handlers[h].key
              /\ t \in stop_events
              /\ t # updater_threads[handlers[h].key]
              /\ updater_threads[handlers[h].key] \notin stop_events

\* C10: the sweep of a worker cycle deletes exactly the records whose expiry
\* is strictly before now and leaves the others as they were, so every token
\* validate_token would accept at that instant is still stored afterwards.
SweepDeletesOnlyExpired ==
    [][ \A t \in ThreadIds :
           (threads[t].pc = "sweep" /\ threads'[t].pc = "wait")
           => /\ DOMAIN tokens' = {x \in DOMAIN tokens : ~(tokens[x].expires < now)}
              /\ \A x \in DOMAIN tokens' : tokens'[x] = tokens[x]
              /\ \A x \in DOMAIN tokens :
                    ValidateToken(tokens, x, now).valid # <<>> => x \in DOMAIN tokens'
      ]_vars

\* C10 witness: a sweep has just run with no token ever presented; it removed
\* an expired token and kept one that expires at this very instant
SweptAtExpiry ==
    /\ \E t \in ThreadIds : threads[t].pc = "wait"
    /\ last.req.op # "play_index"
    /\ \A h \in HandlerIds : handlers[h].op # "play_index"
    /\ issued > Cardinality(DOMAIN tokens)
    /\ \E x \in DOMAIN tokens : tokens[x].expires = now

\* the cache entry of k: playlist text and segment table
EntryOf(k) ==
    [text |-> IF k \in DOMAIN latest_playlists THEN latest_playlists[k] ELSE <<>>,
     segs |-> IF k \in DOMAIN latest_segments THEN latest_segments[k] ELSE <<>>]

\* the cache entry of k after the step
EntryAfter(k) ==
    [text |-> IF k \in DOMAIN latest_playlists' THEN latest_playlists'[k] ELSE <<>>,
     segs |-> IF k \in DOMAIN latest_segments' THEN latest_segments'[k] ELSE <<>>]

\* what a cycle of the worker of k publishes when the origin returns body
PublishedFrom(k, src, body) ==
    LET out == Rewrite(k[1], k[2], src, body)
    IN  [text |-> out.text, segs |-> out.segs]

\* C11: the worker of a channel, once it has published a fetched body, leaves
\* the cache entry equal to the rewrite of that body alone, whatever was
\* cached before; so a cycle that fetches the content already published
\* leaves the entry as it was, segment indices included.
RepublishIsIdempotent ==
    [][ \A t \in ThreadIds :
           (threads[t].pc = "write_playlist" /\ threads'[t].pc = "sweep")
           => \E body \in Bodies :
                 LET k == threads[t].key
                     out == PublishedFrom(k, threads[t].src, body)
                 IN  /\ threads[t].text = out.text
                     /\ latest_playlists'[k] = out.text
                     /\ latest_segments'[k] = out.segs
      ]_vars

\* C11 witness: the cache holds the whole publication of a body and the next
\* cycle, which fetched the same body, has written its table and is about to
\* write its text
SameBodyPublishedAgain ==
    \E t \in ThreadIds, body \in Bodies :
        LET k == threads[t].key
            out == PublishedFrom(k, threads[t].src, body)
        IN  /\ threads[t].pc = "write_playlist"
            /\ threads[t].text = out.text
            /\ EntryOf(k) = out
            /\ Len(out.segs) > 0

\* C12: a playlist request is answered by the first check that fails, in the
\* order MissingToken, InvalidOrExpiredToken, TokenMismatch, PlaylistNotReady:
\* with a token that is unknown or past its expiry the answer is
\* InvalidOrExpiredToken whatever the path and the cache, TokenMismatch is
\* answered only for a stored unexpired token, and the cache is read only
\* after the three token checks have passed.
ChecksInOrder ==
    [][ /\ (AnsweredAtOnce /\ last'.req.op = "play_index")
           => LET token == last'.req.tok IN
              last'.req.resp =
                 IF token = <<>> THEN "MissingToken"
                 ELSE IF token \notin DOMAIN tokens \/ ~Unexpired(token)
                 THEN "InvalidOrExpiredToken"
                 ELSE IF BoundTo(token) # last'.req.key THEN "TokenMismatch"
                 ELSE "none"
        /\ \A h \in HandlerIds :
              (handlers[h].pc = "idle" /\ handlers'[h].op = "play_index")
              => LET token == handlers'[h].tok IN
                 /\ handlers'[h].pc = "lookup"
                 /\ token # <<>>
                 /\ token \in DOMAIN tokens
                 /\ Unexpired(token)
                 /\ BoundTo(token) = handlers'[h].key
        /\ (Answered /\ ~AnsweredAtOnce /\ last'.req.op = "play_index")
           => /\ last'.req.resp \in {"PlaylistNotReady", "Playlist"}
              /\ \E h \in HandlerIds : /\ handlers[h].pc = "lookup"
                                       /\ handlers'[h].pc = "idle"
      ]_vars

\* C12 witness: a token that was issued for (A, v1) and is past its expiry
\* was presented on the path of another channel, which has no cache entry,
\* and the answer was InvalidOrExpiredToken
ExpiredRefusedOnOtherPath ==
    /\ last.req.op = "play_index"
    /\ last.req.resp = "InvalidOrExpiredToken"
    /\ last.req.tok # <<>>
    /\ last.req.tok[1] <= issued
    /\ now > TOKEN_EXPIRY_DEFAULT
    /\ last.req.key \notin AdminKeys
    /\ last.req.key \notin DOMAIN latest_playlists

\* the worker t took a step
Stepped(t) == threads'[t] # threads[t]

\* C13: a worker whose event is set starts no fetch once it is at the top of
\* its loop: its only step from there is to return; a worker returns from
\* nowhere else, and never runs again; setting the event changes no thread
\* (stop_updater does not wait); and under fair scheduling every worker whose
\* event is set eventually returns.
StoppedWorkerExits ==
    /\ [][  /\ \A t \in ThreadIds :
                /\ (threads[t].pc = "loop" /\ t \in stop_events /\ Stepped(t))
                   => threads'[t].pc = "exited"
                /\ (threads[t].pc # "exited" /\ threads'[t].pc = "exited")
                   => (threads[t].pc = "loop" /\ t \in stop_events)
                /\ threads[t].pc = "exited" => ~Stepped(t)
            /\ stop_events' # stop_events => threads' = threads
          ]_vars
    /\ \A t \in 1..MaxThreads :
          (t \in ThreadIds /\ t \in stop_events)
          ~> (t \in ThreadIds /\ threads[t].pc = "exited")

\* C13 witness: /admin/delete has returned, the event of the channel's worker
\* is set, and that worker is still inside its fetch
StoppedWhileFetching ==
    /\ last.req.op = "admin_delete"
    /\ last.req.resp = "Redirect"
    /\ \A h \in HandlerIds : handlers[h].pc = "idle"
    /\ \E t \in ThreadIds : t \in stop_events /\ threads[t].pc = "fetch"

\* C14: a fetch that raises never ends the worker: the cycle goes on to the
\* sweep and the wait, a worker returns only at the top of its loop with its
\* event set, and under fair scheduling a worker that failed is at its fetch
\* again unless it was stopped, and a fetch that succeeded has its text
\* assigned to the cache.
FailedFetchRetried ==
    /\ [][ \A t \in ThreadIds :
               /\ (threads[t].pc \in {"fetch", "log_error"} /\ Stepped(t))
                  => threads'[t].pc \in {"write_segments", "log_error", "sweep"}
               /\ (threads[t].pc # "exited" /\ threads'[t].pc = "exited")
                  => t \in stop_events
               /\ (threads[t].pc = "write_playlist" /\ Stepped(t))
                  => /\ threads[t].text # <<>>
                     /\ latest_playlists'[threads[t].key] = threads[t].text
          ]_vars
    /\ \A t \in 1..MaxThreads :
          /\ (t \in ThreadIds /\ threads[t].pc = "log_error")
             ~> (t \in ThreadIds /\ (threads[t].pc = "fetch" \/ t \in stop_events))
          /\ (t \in ThreadIds /\ threads[t].pc = "write_segments")
             ~> (t \in ThreadIds /\ threads[t].pc = "sweep")

\* C14 witness: the fetch of a worker that is not stopped has raised before
\* the channel's first publication
FetchRaisedBeforeFirstPublish ==
    \E t \in ThreadIds :
        /\ threads[t].pc = "log_error"
        /\ t \notin stop_events
        /\ threads[t].key \in DOMAIN latest_playlists
        /\ latest_playlists[threads[t].key] = <<>>

\* C15: a cycle of a worker is the fetch, then either the two cache
\* assignments or the except clause, then the sweep, then the wait, in this
\* order: the sweep is the step between the cycle's cache update (or its
\* failure) and the wait, it is the only step of a worker that changes the
\* token store, and no step of the cycle skips or repeats it.
SweepOncePerCycle ==
    [][ \A t \in ThreadIds :
           Stepped(t) =>
              /\ threads[t].pc = "loop" => threads'[t].pc \in {"fetch", "exited"}
              /\ threads[t].pc = "fetch"
                 => threads'[t].pc \in {"write_segments", "log_error"}
              /\ threads[t].pc = "write_segments" => threads'[t].pc = "write_playlist"
              /\ threads[t].pc \in {"write_playlist", "log_error"}
                 => threads'[t].pc = "sweep"
              /\ threads[t].pc = "sweep"
                 => /\ threads'[t].pc = "wait"
                    /\ tokens' = CleanupExpiredTokens(tokens, now)
                    /\ UNCHANGED <<latest_playlists, latest_segments>>
              /\ threads[t].pc = "wait" => threads'[t].pc = "loop"
              /\ threads[t].pc # "sweep" => tokens' = tokens
      ]_vars

\* C15 witness: the channel's worker has published nothing yet, so each of
\* its cycles failed; it is in its wait; the last response is the preview
\* that issued a token, so that token was never presented, and the token is
\* gone from the store: the sweep of a failed cycle ran
SweptAfterFailedCycle ==
    /\ \E t \in ThreadIds :
          /\ threads[t].pc = "wait"
          /\ threads[t].key \in DOMAIN latest_playlists
          /\ EntryOf(threads[t].key) = [text |-> <<>>, segs |-> <<>>]
    /\ last.req.op = "admin_preview"
    /\ last.req.resp = "Preview"
    /\ last.req.tok \notin DOMAIN tokens
    /\ \A h \in HandlerIds : handlers[h].op # "play_index"

\* C16: a validate_token that accepts leaves the token store as it was; no
\* step at all (a sweep, a validation of this or another token, a new token,
\* the clock) removes or alters a stored token that is not past its expiry;
\* and a playlist request with a stored unexpired token bound to its path is
\* never refused by the token checks.
TokenReusable ==
    [][ /\ \A token \in DOMAIN tokens : ValidateAccepted(token) => tokens' = tokens
        /\ \A x \in DOMAIN tokens :
              Unexpired(x) => (x \in DOMAIN tokens' /\ tokens'[x] = tokens[x])
        /\ (AnsweredAtOnce /\ last'.req.op = "play_index"
              /\ last'.req.tok \in DOMAIN tokens)
           => ~(Unexpired(last'.req.tok) /\ BoundTo(last'.req.tok) = last'.req.key)
      ]_vars

\* C16 witness: a playlist request was authorized and answered, and a second
\* request with the same token for the same path has passed the token checks
TokenAcceptedTwice ==
    /\ last.req.op = "play_index"
    /\ last.req.resp \in {"Playlist", "PlaylistNotReady"}
    /\ \E h \in HandlerIds :
          /\ handlers[h].pc = "lookup"
          /\ handlers[h].tok = last.req.tok
          /\ handlers[h].key = last.req.key
          /\ handlers[h].tok \in DOMAIN tokens

\* the cache entry start-up gives a channel
Placeholder == [text |-> <<>>, segs |-> <<>>]

\* the start-up loop has passed channel k
Booted(k) == k \in DOMAIN channels /\ \A i \in 1..Len(boot) : boot[i] # k

\* C17: the start-up loop gives every channel of the registry one worker,
\* recorded under its key, and a cache entry with empty text and an empty
\* table; that entry changes only when the channel's worker assigns the
\* table of a fetched body; and while it stands an authorized playlist
\* request is answered PlaylistNotReady and no segment request gets past
\* SegmentNotFound.
StartupPlaceholders ==
    /\ [](\A k \in PairKeys :
             Booted(k)
             => /\ k \in DOMAIN updater_threads
                /\ Cardinality({t \in ThreadIds : threads[t].key = k}) = 1
                /\ threads[updater_threads[k]].key = k
                /\ k \in DOMAIN latest_playlists
                /\ k \in DOMAIN latest_segments)
    /\ [][  /\ boot' # boot
              => /\ Head(boot) \in DOMAIN latest_playlists'
                 /\ latest_playlists'[Head(boot)] = <<>>
                 /\ Head(boot) \in DOMAIN latest_segments'
                 /\ latest_segments'[Head(boot)] = <<>>
            /\ \A k \in PairKeys :
                  (/\ Booted(k)
                   /\ EntryOf(k) = Placeholder
                   /\ EntryAfter(k) # Placeholder)
                  => \E t \in ThreadIds : /\ threads[t].key = k
                                          /\ threads[t].pc = "write_segments"
                                          /\ Stepped(t)
            /\ \A h \in HandlerIds :
                  /\ (/\ handlers[h].pc = "lookup"
                      /\ handlers'[h] # handlers[h]
                      /\ EntryOf(handlers[h].key) = Placeholder)
                     => last'.req.resp = "PlaylistNotReady"
                  /\ (handlers[h].pc = "idle" /\ handlers'[h].op = "segment")
                     => EntryOf(handlers'[h].key) # Placeholder
            /\ (Answered /\ last'.req.op = "segment" /\ EntryOf(last'.req.key) = Placeholder)
               => (AnsweredAtOnce /\ last'.req.resp = "SegmentNotFound")
          ]_vars

\* C17 witness: two channels went through start-up, neither has published
\* yet, segment 0 of one of them was answered SegmentNotFound and a playlist
\* request for the other has passed the token checks
AskedBeforeFirstPublish ==
    /\ Serving
    /\ \A k \in PairKeys : Booted(k) /\ EntryOf(k) = Placeholder
    /\ last.req.op = "segment"
    /\ last.req.resp = "SegmentNotFound"
    /\ last.req.seg = 0
    /\ last.req.key = <<NameB, V1>>
    /\ \E h \in HandlerIds : /\ handlers[h].pc = "lookup"
                             /\ handlers[h].key = <<NameA, V1>>

\* C18: once /admin/delete of a channel has returned and the channel is not
\* registered again, the cache holds no playlist text and no segment table
\* under its key, in every later state.
DeletedChannelNotCached ==
    \A k \in AdminKeys :
        (k \notin DOMAIN channels /\ \A h \in HandlerIds : handlers[h].pc = "idle")
        => (k \notin DOMAIN latest_playlists /\ k \notin DOMAIN latest_segments)

\* whether the cache has text and a table under k, and which
CacheAt(k) ==
    <<k \in DOMAIN latest_playlists, k \in DOMAIN latest_segments, EntryOf(k)>>

CacheAfter(k) ==
    <<k \in DOMAIN latest_playlists', k \in DOMAIN latest_segments', EntryAfter(k)>>

\* the step is one of the worker of k, of a request that adds or deletes k
\* (start_updater and stop_updater included) or of start-up for k
ActsOn(k) ==
    \/ \E t \in ThreadIds : Stepped(t) /\ threads[t].key = k
    \/ \E h \in HandlerIds :
          /\ handlers'[h] # handlers[h]
          /\ k = IF handlers[h].pc = "idle" THEN handlers'[h].key ELSE handlers[h].key
    \/ (AnsweredAtOnce /\ last'.req.key = k)
    \/ (boot' # boot /\ Head(boot) = k)

\* C19: a step of the worker of a channel, and a step of a start, stop, add
\* or delete of a channel, leaves the cached text and table of every other
\* channel as they were, present or absent.
ChannelsIndependent ==
    [][ \A k \in PairKeys :
           ActsOn(k) => \A other \in PairKeys \ {k} : CacheAfter(other) = CacheAt(other)
      ]_vars

\* C19 witness: (A, v1) was deleted, its entry is gone and its worker has
\* returned, while (B, v1) still has the text and table its worker published
DeletedBesidePublished ==
    /\ last.req.op = "admin_delete"
    /\ last.req.key = <<NameA, V1>>
    /\ \A h \in HandlerIds : handlers[h].pc = "idle"
    /\ <<NameA, V1>> \notin DOMAIN channels
    /\ <<NameA, V1>> \notin DOMAIN latest_playlists
    /\ \E t \in ThreadIds : threads[t].key = <<NameA, V1>> /\ threads[t].pc = "exited"
    /\ <<NameB, V1>> \in DOMAIN latest_playlists
    /\ EntryOf(<<NameB, V1>>).text # <<>>
    /\ EntryOf(<<NameB, V1>>).segs # <<>>

\* the handles recorded in updater_threads
Recorded == {updater_threads[k] : k \in DOMAIN updater_threads}

\* the handles recorded after the step
RecordedAfter == {updater_threads'[k] : k \in DOMAIN updater_threads'}

\* C20: no handle recorded in updater_threads has its event set, in every
\* reachable state; an event is set only on a handle that is out of the map,
\* and a handle whose event is set is never recorded.
RecordedHandleNotCancelled ==
    /\ [](Recorded \cap stop_events = {})
    /\ [][  /\ \A t \in stop_events' \ stop_events : t \notin Recorded
            /\ \A t \in RecordedAfter \ Recorded : t \notin stop_events
          ]_vars

\* C20 witness: the worker of a channel has had its event set and is still
\* in its cycle, and the map records another worker of the channel, running
CancelledBesideRecorded ==
    \E k \in DOMAIN updater_threads, t \in stop_events :
        /\ threads[t].key = k
        /\ threads[t].pc \notin {"loop", "exited"}
        /\ threads[updater_threads[k]].pc = "fetch"

====
